---- MODULE Spec2Model ----
(***************************************************************************)
(* The bridge endpoint of the diagnostics service: BridgeHandler.Bridge    *)
(* (src/api/bridge_handler.go).  One handler invocation per companion      *)
(* connection; per declared node one writer goroutine that ranges over the *)
(* node session's RequestCh and writes requests onto the response body;    *)
(* the handler itself ends in the reader loop that decodes responses from  *)
(* the request body and routes them through requestMap.                    *)
(*                                                                         *)
(* The node session (RequestCh, Connect), the session cache and the        *)
(* operator facade are not part of the source at hand; what the model      *)
(* needs of them is taken from the specification and marked so.            *)
(***************************************************************************)
EXTENDS Integers, Sequences, FiniteSets, TLC

\* ------------------------------------------------------------- bounds
MaxConns == 2       \* companion connections (handler invocations)
MaxReqs == 2        \* requests the operator facade issues
QueueCap == 1       \* capacity of a node session's RequestCh
SinkCap == 1        \* capacity of a request's Responses channel
MaxChunks == 2      \* objects the companions send on the reverse channel
MaxBody == 2        \* objects in flight on one request body
MaxFails == 1       \* failing writes of the transport
MaxCancels == 1     \* requests the operator cancels
MaxBads == 1        \* requests whose payload cannot be marshalled
MaxCloses == 1      \* companions that go away

\* --------------------------------------------------- program constants
RetryLimit == 15    \* if request.Retries < 15
StatusOK == 200     \* w.WriteHeader(http.StatusOK)

Conns == 1..MaxConns
Reqs == 1..MaxReqs
Ids == 1..MaxReqs
Nodes == {"nA", "nB"}
BadNode == ""       \* a node-info whose id is empty: CreateNodeSession fails
NoNode == "none"
NoReq == 0
NoConn == 0
StrayId == 0        \* an id no request ever carries
Malformed == [id |-> -1, seq |-> 0, last |-> FALSE, err |-> FALSE]
NoResp == [req |-> NoReq, id |-> -1, seq |-> 0, last |-> FALSE, err |-> FALSE]

\* The node lists a handshake may declare.
NodeLists == {<<"nA">>, <<"nA", "nB">>, <<"nA", BadNode>>}

VARIABLES
    hpc,            \* [Conns]: position of the handler goroutine
    status,         \* [Conns]: HTTP status sent to the companion (0: none yet)
    hsLeft,         \* [Conns]: connectionInfo.Nodes still to be visited
    body,           \* [Conns]: objects sent by the companion, not yet read
    peerClosed,     \* [Conns]: the request body ended / the remote closed
    eof,            \* [Conns]: the reader loop has logged the end of the body
    received,       \* [Conns]: ids of the requests the companion has received
    sent,           \* [Conns][id]: chunks the companion has emitted for id
    requestMap,     \* [Conns][id]: the handler's requestMap (NoReq: absent)
    response,       \* [Conns]: the response the reader loop holds
    wpc,            \* [Conns][Nodes]: position of the per-node writer
    wreq,           \* [Conns][Nodes]: the request the writer holds
    RequestCh,      \* [Nodes]: nodeSession.RequestCh
    Connected,      \* [Nodes]: node session marked connected
    owner,          \* [Nodes]: the connection whose Connect came last
    signalled,      \* connections told to tear down by a later Connect
    reqNode,        \* [Reqs]: owning node session (NoNode: not issued yet)
    reqId,          \* [Reqs]: rpcRequest.Id
    reqBad,         \* [Reqs]: json.Marshal(rpcRequest) fails
    Retries,        \* [Reqs]: request.Retries
    Responses,      \* [Reqs]: chunks buffered in request.Responses
    closed,         \* [Reqs]: the caller cancelled: Responses is closed
    delivered,      \* [Reqs]: every chunk ever sent into request.Responses
    writes,         \* [Reqs]: successful writes of the request's JSON
    failed,         \* [Reqs]: failed writes of the request's JSON
    writeConn,      \* [Reqs]: the connection of the last successful write
    reenq,          \* [Reqs]: times the writer put the request back
    dropped,        \* [Reqs]: the re-enqueue found RequestCh full
    crashed,        \* an unrecovered panic ended the process
    transport,      \* "flaky": a write may fail; "down": every write fails
    budget          \* what the environment may still do (see InitWith)

vars == <<hpc, status, hsLeft, body, peerClosed, eof, received, sent, requestMap,
          response, wpc, wreq, RequestCh, Connected, owner, signalled,
          reqNode, reqId, reqBad, Retries, Responses, closed, delivered,
          writes, failed, writeConn, reenq, dropped, crashed, transport,
          budget>>

connVars == <<hpc, status, hsLeft, eof>>
wireVars == <<body, peerClosed, received, sent>>
writerVars == <<wpc, wreq>>
nodeVars == <<Connected, owner, signalled>>
reqVars == <<reqNode, reqId, reqBad>>
histVars == <<writes, failed, writeConn, reenq, dropped>>
budgets == <<transport, budget>>

\* ---------------------------------------------------------------- Init
\* budget: conns (connections still to arrive), fails (failing writes of a
\* flaky transport), chunks (objects the companions still send), cancels
\* (requests the operator still cancels), bads (requests that cannot be
\* marshalled), closes (companions that still go away).
Budget(conns, fails, chunks, cancels, bads, closes) ==
    [conns |-> conns, fails |-> fails, chunks |-> chunks,
     cancels |-> cancels, bads |-> bads, closes |-> closes]

InitWith(mode, b) ==
    /\ hpc = [c \in Conns |-> "idle"]
    /\ status = [c \in Conns |-> 0]
    /\ hsLeft = [c \in Conns |-> <<>>]
    /\ body = [c \in Conns |-> <<>>]
    /\ peerClosed = [c \in Conns |-> FALSE]
    /\ eof = [c \in Conns |-> FALSE]
    /\ received = [c \in Conns |-> {}]
    /\ sent = [c \in Conns |-> [i \in Ids \cup {StrayId} |-> 0]]
    /\ requestMap = [c \in Conns |-> [i \in Ids |-> NoReq]]
    /\ response = [c \in Conns |-> NoResp]
    /\ wpc = [c \in Conns |-> [n \in Nodes |-> "none"]]
    /\ wreq = [c \in Conns |-> [n \in Nodes |-> NoReq]]
    /\ RequestCh = [n \in Nodes |-> <<>>]
    /\ Connected = [n \in Nodes |-> FALSE]
    /\ owner = [n \in Nodes |-> NoConn]
    /\ signalled = {}
    /\ reqNode = [r \in Reqs |-> NoNode]
    /\ reqId = [r \in Reqs |-> 0]
    /\ reqBad = [r \in Reqs |-> FALSE]
    /\ Retries = [r \in Reqs |-> 0]
    /\ Responses = [r \in Reqs |-> 0]
    /\ closed = [r \in Reqs |-> FALSE]
    /\ delivered = [r \in Reqs |-> <<>>]
    /\ writes = [r \in Reqs |-> 0]
    /\ failed = [r \in Reqs |-> 0]
    /\ writeConn = [r \in Reqs |-> NoConn]
    /\ reenq = [r \in Reqs |-> 0]
    /\ dropped = [r \in Reqs |-> FALSE]
    /\ crashed = FALSE
    /\ transport = mode
    /\ budget = b

\* One companion connection over a flaky transport, or over one that fails
\* every write (where the companion receives nothing and sends nothing).
InitDown == InitWith("down", Budget(1, 0, 0, MaxCancels, MaxBads, MaxCloses))

Init ==
    \/ InitWith("flaky", Budget(1, MaxFails, MaxChunks, MaxCancels, MaxBads,
                                MaxCloses))
    \/ InitDown

\* Two companion connections, the second arriving while the first is open.
InitSuper ==
    \/ InitWith("flaky", Budget(MaxConns, 1, 1, 0, 0, 0))
    \/ InitDown

\* ------------------------------------------------------------- helpers
Finished(c) == hpc[c] \in {"returned", "panicked"}

\* A chunk as it enters a sink: kind "response" (routed by the reader loop),
\* "marshal" (Failed to marshal request) or "sendfailed" (Failed to write
\* metrics request).
Chunk(kind, id, seq, last, err) ==
    [kind |-> kind, id |-> id, seq |-> seq, last |-> last, err |-> err]

\* Requests issued so far for node session n; ids come from a per-session
\* monotone counter.
IssuedFor(n) == {r \in Reqs : reqNode[r] = n}
NextId(n) == Cardinality(IssuedFor(n)) + 1

\* internal.EncodeError after the header went out: net/http keeps the first
\* status written.
EncodeErrorStatus(cur) == IF cur = 0 THEN 400 ELSE cur

\* The comparison off by one: the 15th failure is retried as well.
MayRetryInclusive(n) == n <= RetryLimit

\* if request.Retries < 15
MayRetry(n) == n < RetryLimit

\* -------------------------------------------------- handler: handshake
\* The node is connected ahead of the handshake: Connect moved in front of
\* the decode of connectionInfo.
BridgeConnectFirst(c) ==
    /\ ~crashed
    /\ hpc[c] = "idle"
    /\ IF c = 1 THEN TRUE ELSE hpc[c - 1] # "idle"
    /\ budget.conns > 0
    /\ hpc' = [hpc EXCEPT ![c] = "handshake"]
    /\ status' = [status EXCEPT ![c] = StatusOK]
    /\ budget' = [budget EXCEPT !.conns = @ - 1]
    /\ Connected' = [Connected EXCEPT !["nA"] = TRUE]
    /\ owner' = [owner EXCEPT !["nA"] = c]
    /\ UNCHANGED <<hsLeft, eof, wireVars, requestMap, response, writerVars,
                   RequestCh, signalled, reqVars, Retries, Responses, closed,
                   delivered, histVars, crashed, transport>>

\* Lines 29-39: context, WriteHeader(200), Flush.
Bridge(c) ==
    /\ ~crashed
    /\ hpc[c] = "idle"
    /\ IF c = 1 THEN TRUE ELSE hpc[c - 1] # "idle"
    /\ budget.conns > 0
    /\ hpc' = [hpc EXCEPT ![c] = "handshake"]
    /\ status' = [status EXCEPT ![c] = StatusOK]
    /\ budget' = [budget EXCEPT !.conns = @ - 1]
    /\ UNCHANGED <<hsLeft, eof, wireVars, requestMap, response, writerVars,
                   RequestCh, nodeVars, reqVars, Retries, Responses, closed,
                   delivered, histVars, crashed, transport>>

\* Lines 41-47, err = nil: the handshake object is decoded.
DecodeHandshake(c, nodes) ==
    /\ ~crashed
    /\ hpc[c] = "handshake"
    /\ ~peerClosed[c]
    /\ hpc' = [hpc EXCEPT ![c] = "nodes"]
    /\ hsLeft' = [hsLeft EXCEPT ![c] = nodes]
    /\ UNCHANGED <<status, eof, wireVars, requestMap, response, writerVars,
                   RequestCh, nodeVars, reqVars, Retries, Responses, closed,
                   delivered, histVars, crashed, budgets>>

\* Lines 49-53: the first object is no handshake (or the body ended).
HandshakeError(c) ==
    /\ ~crashed
    /\ hpc[c] = "handshake"
    /\ hpc' = [hpc EXCEPT ![c] = "returned"]
    /\ status' = [status EXCEPT ![c] = EncodeErrorStatus(status[c])]
    /\ UNCHANGED <<hsLeft, eof, wireVars, requestMap, response, writerVars,
                   RequestCh, nodeVars, reqVars, Retries, Responses, closed,
                   delivered, histVars, crashed, budgets>>

\* nodeSession.Connect(r.RemoteAddr): marks connected, records the peer; a
\* prior connection of the node is signalled to tear down.
Connect(c, n) ==
    /\ Connected' = [Connected EXCEPT ![n] = TRUE]
    /\ owner' = [owner EXCEPT ![n] = c]
    /\ signalled' = IF owner[n] \notin {NoConn, c}
                    THEN signalled \cup {owner[n]}
                    ELSE signalled

\* Lines 58-125, one iteration: find or create the node session, attach,
\* Connect, spawn the writer.  An empty node id fails CreateNodeSession and
\* the handler returns (lines 64-68).
NodeLoop(c) ==
    /\ ~crashed
    /\ hpc[c] = "nodes"
    /\ LET n == Head(hsLeft[c])
           rest == Tail(hsLeft[c])
       IN  IF n = BadNode
           THEN /\ hpc' = [hpc EXCEPT ![c] = "returned"]
                /\ status' = [status EXCEPT ![c] = EncodeErrorStatus(status[c])]
                /\ UNCHANGED <<hsLeft, wpc, nodeVars>>
           ELSE /\ Connect(c, n)
                /\ wpc' = [wpc EXCEPT ![c][n] = "recv"]
                /\ hsLeft' = [hsLeft EXCEPT ![c] = rest]
                /\ hpc' = [hpc EXCEPT ![c] =
                             IF rest = <<>> THEN "decode" ELSE "nodes"]
                /\ UNCHANGED status
    /\ UNCHANGED <<eof, wireVars, requestMap, response, wreq, RequestCh,
                   reqVars, Retries, Responses, closed, delivered, histVars,
                   crashed, budgets>>

\* ---------------------------------------------------- per-node writer
\* The writer goroutine of connection c for node n (lines 76-124).  Its loop
\* ranges over nodeSession.RequestCh, which nothing in the handler closes:
\* the loop has no exit of its own, and the deferred nodeSession.Disconnect()
\* of line 77 runs only once the range ends.

\* Line 79 (receive) and lines 80-92 (marshal): the next request leaves
\* RequestCh; a request that cannot be marshalled goes to the error send.
WriterRecv(c, n) ==
    /\ ~crashed
    /\ wpc[c][n] = "recv"
    /\ RequestCh[n] # <<>>
    /\ LET r == Head(RequestCh[n])
       IN  /\ RequestCh' = [RequestCh EXCEPT ![n] = Tail(@)]
           /\ wreq' = [wreq EXCEPT ![c][n] = r]
           /\ wpc' = [wpc EXCEPT ![c][n] =
                        IF reqBad[r] THEN "marshalerr" ELSE "insert"]
    /\ UNCHANGED <<connVars, wireVars, requestMap, response, nodeVars,
                   reqVars, Retries, Responses, closed, delivered, histVars,
                   crashed, budgets>>

\* A send into request.Responses from a writer goroutine: it blocks while
\* the channel is full; on a closed channel it panics, and a panic in a
\* goroutine that is not the handler's ends the process.
WriterSend(c, n, kind) ==
    LET r == wreq[c][n]
    IN  /\ IF closed[r] THEN TRUE ELSE Responses[r] < SinkCap
        /\ IF closed[r]
           THEN /\ crashed' = TRUE
                /\ UNCHANGED <<wpc, wreq, Responses, delivered>>
           ELSE /\ delivered' = [delivered EXCEPT ![r] =
                       Append(@, Chunk(kind, reqId[r], 0, TRUE, TRUE))]
                /\ Responses' = [Responses EXCEPT ![r] = @ + 1]
                /\ wpc' = [wpc EXCEPT ![c][n] = "recv"]
                /\ wreq' = [wreq EXCEPT ![c][n] = NoReq]
                /\ UNCHANGED crashed

\* Lines 84-92: Failed to marshal request, Last: true.
WriterMarshalError(c, n) ==
    /\ ~crashed
    /\ wpc[c][n] = "marshalerr"
    /\ WriterSend(c, n, "marshal")
    /\ UNCHANGED <<connVars, wireVars, requestMap, response, RequestCh,
                   nodeVars, reqVars, Retries, closed, histVars, budgets>>

\* Lines 96-98: requestMap[rpcRequest.Id] = request, under requestMutex.
WriterInsert(c, n) ==
    /\ ~crashed
    /\ wpc[c][n] = "insert"
    /\ requestMap' = [requestMap EXCEPT ![c][reqId[wreq[c][n]]] = wreq[c][n]]
    /\ wpc' = [wpc EXCEPT ![c][n] = "write"]
    /\ UNCHANGED <<connVars, wireVars, response, wreq, RequestCh, nodeVars,
                   reqVars, Retries, Responses, closed, delivered, histVars,
                   crashed, budgets>>

\* A successful write that falls through into the retry: the request goes
\* back on the queue although the companion has it.
WriteOkRequeue(c, n) ==
    LET r == wreq[c][n]
    IN  /\ received' = [received EXCEPT ![c] = @ \cup {reqId[r]}]
        /\ writes' = [writes EXCEPT ![r] = @ + 1]
        /\ writeConn' = [writeConn EXCEPT ![r] = c]
        /\ wpc' = [wpc EXCEPT ![c][n] = "recv"]
        /\ wreq' = [wreq EXCEPT ![c][n] = NoReq]
        /\ RequestCh' = [RequestCh EXCEPT ![n] =
                           IF Len(@) < QueueCap THEN Append(@, r) ELSE @]
        /\ UNCHANGED <<failed, reenq, dropped>>

\* Line 100, err = nil, and line 122: the request's JSON is written and
\* flushed; the companion has it.
WriteOk(c, n) ==
    LET r == wreq[c][n]
    IN  /\ received' = [received EXCEPT ![c] = @ \cup {reqId[r]}]
        /\ writes' = [writes EXCEPT ![r] = @ + 1]
        /\ writeConn' = [writeConn EXCEPT ![r] = c]
        /\ wpc' = [wpc EXCEPT ![c][n] = "recv"]
        /\ wreq' = [wreq EXCEPT ![c][n] = NoReq]
        /\ UNCHANGED <<RequestCh, failed, reenq, dropped>>

\* Line 100, err # nil: on to the failure branch.
WriteFailed(c, n) ==
    /\ wpc' = [wpc EXCEPT ![c][n] = "unmap"]
    /\ failed' = [failed EXCEPT ![wreq[c][n]] = @ + 1]
    /\ UNCHANGED <<received, writes, writeConn, wreq, RequestCh, reenq,
                   dropped>>

\* Line 100: w.Write(bytes) on a handler that is still running.  The
\* transport decides: a transport that is down fails every write, a flaky
\* one fails budget.fails of them.
WriterWrite(c, n, ok) ==
    /\ ~crashed
    /\ wpc[c][n] = "write"
    /\ ~Finished(c)
    /\ IF ok THEN transport = "flaky"
             ELSE IF transport = "down" THEN TRUE ELSE budget.fails > 0
    /\ IF ok THEN WriteOk(c, n) ELSE WriteFailed(c, n)
    /\ budget' = IF ok \/ transport = "down" THEN budget
                 ELSE [budget EXCEPT !.fails = @ - 1]
    /\ UNCHANGED <<connVars, body, peerClosed, sent, requestMap, response,
                   nodeVars, reqVars, Retries, Responses, closed, delivered,
                   crashed, transport>>

\* Line 100 once the handler has returned: the HTTP/2 response writer
\* panics ("Write called after Handler finished"), in the writer goroutine.
WriterWriteFinished(c, n) ==
    /\ ~crashed
    /\ wpc[c][n] = "write"
    /\ Finished(c)
    /\ crashed' = TRUE
    /\ UNCHANGED <<connVars, wireVars, requestMap, response, writerVars,
                   RequestCh, nodeVars, reqVars, Retries, Responses, closed,
                   delivered, histVars, budgets>>

\* Lines 101-103: delete(requestMap, rpcRequest.Id), under requestMutex.
WriterUnmap(c, n) ==
    /\ ~crashed
    /\ wpc[c][n] = "unmap"
    /\ requestMap' = [requestMap EXCEPT ![c][reqId[wreq[c][n]]] = NoReq]
    /\ wpc' = [wpc EXCEPT ![c][n] = "retry"]
    /\ UNCHANGED <<connVars, wireVars, response, wreq, RequestCh, nodeVars,
                   reqVars, Retries, Responses, closed, delivered, histVars,
                   crashed, budgets>>

\* Lines 105-110: request.Retries++; below the limit the request goes back
\* to the tail of RequestCh if there is room (select with default: dropped
\* otherwise); at the limit the writer goes on to the error send.
WriterRetry(c, n) ==
    /\ ~crashed
    /\ wpc[c][n] = "retry"
    /\ LET r == wreq[c][n]
           room == Len(RequestCh[n]) < QueueCap
       IN  /\ Retries' = [Retries EXCEPT ![r] = @ + 1]
           /\ IF MayRetry(Retries[r] + 1)
              THEN /\ RequestCh' = [RequestCh EXCEPT ![n] =
                                      IF room THEN Append(@, r) ELSE @]
                   /\ reenq' = [reenq EXCEPT ![r] = IF room THEN @ + 1 ELSE @]
                   /\ dropped' = [dropped EXCEPT ![r] = @ \/ ~room]
                   /\ wpc' = [wpc EXCEPT ![c][n] = "recv"]
                   /\ wreq' = [wreq EXCEPT ![c][n] = NoReq]
              ELSE /\ wpc' = [wpc EXCEPT ![c][n] = "errsend"]
                   /\ UNCHANGED <<RequestCh, reenq, dropped, wreq>>
    /\ UNCHANGED <<connVars, wireVars, requestMap, response, nodeVars,
                   reqVars, Responses, closed, delivered, writes, failed,
                   writeConn, crashed, budgets>>

\* Lines 111-118: Failed to write metrics request, Last: true.
WriterSendFailed(c, n) ==
    /\ ~crashed
    /\ wpc[c][n] = "errsend"
    /\ WriterSend(c, n, "sendfailed")
    /\ UNCHANGED <<connVars, wireVars, requestMap, response, RequestCh,
                   nodeVars, reqVars, Retries, closed, histVars, budgets>>

\* -------------------------------------------------------- reader loop
\* The error is not promoted: last stays as the companion sent it.
PromoteAsSent(obj) == obj.last

\* Lines 143-145: a response that carries an error is made terminal.
Promote(obj) == obj.last \/ obj.err

\* Line 130: json.NewDecoder(r.Body).Decode(&response).  Every iteration
\* builds a new decoder; one Read of the body hands it all the bytes that
\* have arrived (the first k objects), it decodes the first object and the
\* bytes it buffered beyond that object go away with it.
Undecoded(c, k) == SubSeq(body[c], k + 1, Len(body[c]))

\* Lines 128-141: decode one object; a malformed object is logged and
\* skipped; the id is looked up in requestMap under requestMutex and an
\* unknown id is skipped.
ReaderDecode(c, k) ==
    /\ ~crashed
    /\ hpc[c] = "decode"
    /\ k \in 1..Len(body[c])
    /\ LET obj == Head(body[c])
           r == IF obj.id \in Ids THEN requestMap[c][obj.id] ELSE NoReq
       IN  /\ body' = [body EXCEPT ![c] = Undecoded(c, k)]
           /\ IF obj = Malformed \/ r = NoReq
              THEN UNCHANGED <<hpc, response>>
              ELSE /\ hpc' = [hpc EXCEPT ![c] = "send"]
                   /\ response' = [response EXCEPT ![c] =
                         [req |-> r, id |-> obj.id, seq |-> obj.seq,
                          last |-> Promote(obj), err |-> obj.err]]
    /\ UNCHANGED <<status, hsLeft, eof, peerClosed, received, sent,
                   requestMap, writerVars, RequestCh, nodeVars, reqVars,
                   Retries, Responses, closed, delivered, histVars, crashed,
                   budgets>>

\* Lines 130-133 on a body that has ended: Decode returns the error, it is
\* logged, and the loop continues with the next Decode.
ReaderDecodeError(c) ==
    /\ ~crashed
    /\ hpc[c] = "decode"
    /\ body[c] = <<>>
    /\ peerClosed[c]
    /\ eof' = [eof EXCEPT ![c] = TRUE]
    /\ UNCHANGED <<hpc, status, hsLeft, wireVars, requestMap, response,
                   writerVars, RequestCh, nodeVars, reqVars, Retries,
                   Responses, closed, delivered, histVars, crashed, budgets>>

\* Line 147: request.Responses <- &response, in the handler goroutine.  It
\* blocks while the channel is full; on a closed channel it panics, which
\* ends this handler (net/http recovers it and drops the connection).
ReaderSend(c) ==
    /\ ~crashed
    /\ hpc[c] = "send"
    /\ LET r == response[c].req
       IN  /\ IF closed[r] THEN TRUE ELSE Responses[r] < SinkCap
           /\ IF closed[r]
              THEN /\ hpc' = [hpc EXCEPT ![c] = "panicked"]
                   /\ response' = [response EXCEPT ![c] = NoResp]
                   /\ UNCHANGED <<delivered, Responses>>
              ELSE /\ delivered' = [delivered EXCEPT ![r] =
                          Append(@, Chunk("response", response[c].id,
                                          response[c].seq, response[c].last,
                                          response[c].err))]
                   /\ Responses' = [Responses EXCEPT ![r] = @ + 1]
                   /\ hpc' = [hpc EXCEPT ![c] =
                                IF response[c].last THEN "delete" ELSE "decode"]
                   /\ response' = [response EXCEPT ![c] =
                                IF response[c].last THEN @ ELSE NoResp]
    /\ UNCHANGED <<status, hsLeft, eof, wireVars, requestMap, writerVars,
                   RequestCh, nodeVars, reqVars, Retries, closed, histVars,
                   crashed, budgets>>

\* Lines 149-153: delete(requestMap, response.Id), under requestMutex.
ReaderDelete(c) ==
    /\ ~crashed
    /\ hpc[c] = "delete"
    /\ requestMap' = [requestMap EXCEPT ![c][response[c].id] = NoReq]
    /\ response' = [response EXCEPT ![c] = NoResp]
    /\ hpc' = [hpc EXCEPT ![c] = "decode"]
    /\ UNCHANGED <<status, hsLeft, eof, wireVars, writerVars, RequestCh,
                   nodeVars, reqVars, Retries, Responses, closed, delivered,
                   histVars, crashed, budgets>>

\* ------------------------------------------------------- environment
\* The operator facade issues a request: fresh id from the node session's
\* counter, retry counter 0, onto RequestCh of a connected node.
Enqueue(r, n, bad) ==
    /\ ~crashed
    /\ reqNode[r] = NoNode
    /\ IF r = 1 THEN TRUE ELSE reqNode[r - 1] # NoNode
    /\ Connected[n]
    /\ Len(RequestCh[n]) < QueueCap
    /\ reqId' = [reqId EXCEPT ![r] = NextId(n)]
    /\ reqNode' = [reqNode EXCEPT ![r] = n]
    /\ IF bad THEN budget.bads > 0 ELSE TRUE
    /\ reqBad' = [reqBad EXCEPT ![r] = bad]
    /\ RequestCh' = [RequestCh EXCEPT ![n] = Append(@, r)]
    /\ budget' = IF bad THEN [budget EXCEPT !.bads = @ - 1] ELSE budget
    /\ UNCHANGED <<connVars, wireVars, requestMap, response, writerVars,
                   nodeVars, Retries, Responses, closed, delivered, histVars,
                   crashed, transport>>

\* The operator cancels a request: its response sink is closed.
Cancel(r) ==
    /\ ~crashed
    /\ reqNode[r] # NoNode
    /\ ~closed[r]
    /\ budget.cancels > 0
    /\ closed' = [closed EXCEPT ![r] = TRUE]
    /\ budget' = [budget EXCEPT !.cancels = @ - 1]
    /\ UNCHANGED <<connVars, wireVars, requestMap, response, writerVars,
                   RequestCh, nodeVars, reqVars, Retries, Responses,
                   delivered, histVars, crashed, transport>>

\* The caller takes the next chunk out of its sink.
Consume(r) ==
    /\ ~crashed
    /\ ~closed[r]
    /\ Responses[r] > 0
    /\ Responses' = [Responses EXCEPT ![r] = @ - 1]
    /\ UNCHANGED <<connVars, wireVars, requestMap, response, writerVars,
                   RequestCh, nodeVars, reqVars, Retries, closed, delivered,
                   histVars, crashed, budgets>>

\* The objects a companion may put on the reverse channel: a malformed one,
\* or a chunk for a request it has received or for an id nobody issued.
\* (last, err) as the companion sets them.
ChunkFlags == {<<FALSE, FALSE>>, <<TRUE, FALSE>>, <<FALSE, TRUE>>}

CompanionSend(c, id, flags, malformed) ==
    /\ ~crashed
    /\ hpc[c] \in {"decode", "send", "delete"}
    /\ ~peerClosed[c]
    /\ budget.chunks > 0
    /\ Len(body[c]) < MaxBody
    /\ id \in received[c] \cup {StrayId}
    /\ body' = [body EXCEPT ![c] = Append(@,
                  IF malformed THEN Malformed
                  ELSE [id |-> id, seq |-> sent[c][id] + 1,
                        last |-> flags[1], err |-> flags[2]])]
    /\ sent' = [sent EXCEPT ![c][id] = IF malformed THEN @ ELSE @ + 1]
    /\ budget' = [budget EXCEPT !.chunks = @ - 1]
    /\ UNCHANGED <<connVars, peerClosed, received, requestMap, response,
                   writerVars, RequestCh, nodeVars, reqVars, Retries,
                   Responses, closed, delivered, histVars, crashed,
                   transport>>

\* The companion goes away: the request body ends.
CompanionClose(c) ==
    /\ ~crashed
    /\ hpc[c] \notin {"idle", "returned", "panicked"}
    /\ ~peerClosed[c]
    /\ budget.closes > 0
    /\ peerClosed' = [peerClosed EXCEPT ![c] = TRUE]
    /\ budget' = [budget EXCEPT !.closes = @ - 1]
    /\ UNCHANGED <<connVars, body, received, sent, requestMap, response,
                   writerVars, RequestCh, nodeVars, reqVars, Retries,
                   Responses, closed, delivered, histVars, crashed,
                   transport>>

\* ---------------------------------------------------------------- Next
Next ==
    \/ \E c \in Conns : Bridge(c)
    \/ \E c \in Conns, nodes \in NodeLists : DecodeHandshake(c, nodes)
    \/ \E c \in Conns : HandshakeError(c)
    \/ \E c \in Conns : NodeLoop(c)
    \/ \E c \in Conns, n \in Nodes : WriterRecv(c, n)
    \/ \E c \in Conns, n \in Nodes : WriterMarshalError(c, n)
    \/ \E c \in Conns, n \in Nodes : WriterInsert(c, n)
    \/ \E c \in Conns, n \in Nodes, ok \in BOOLEAN : WriterWrite(c, n, ok)
    \/ \E c \in Conns, n \in Nodes : WriterWriteFinished(c, n)
    \/ \E c \in Conns, n \in Nodes : WriterUnmap(c, n)
    \/ \E c \in Conns, n \in Nodes : WriterRetry(c, n)
    \/ \E c \in Conns, n \in Nodes : WriterSendFailed(c, n)
    \/ \E c \in Conns, k \in 1..MaxBody : ReaderDecode(c, k)
    \/ \E c \in Conns : ReaderDecodeError(c)
    \/ \E c \in Conns : ReaderSend(c)
    \/ \E c \in Conns : ReaderDelete(c)
    \/ \E r \in Reqs, n \in Nodes, bad \in BOOLEAN : Enqueue(r, n, bad)
    \/ \E r \in Reqs : Cancel(r)
    \/ \E r \in Reqs : Consume(r)
    \/ \E c \in Conns, id \in Ids \cup {StrayId}, flags \in ChunkFlags :
          CompanionSend(c, id, flags, FALSE)
    \/ \E c \in Conns : CompanionSend(c, StrayId, <<FALSE, FALSE>>, TRUE)
    \/ \E c \in Conns : CompanionClose(c)

Spec == Init /\ [][Next]_vars

SpecSuper == InitSuper /\ [][Next]_vars

\* ------------------------------------------------------------ fairness
\* The Go scheduler runs every goroutine that can take a step: the handler
\* goroutine of a connection (node loop, then reader loop) and each per-node
\* writer.  A goroutine blocked on a channel operation has no step to take.
HandlerStep(c) ==
    \/ NodeLoop(c)
    \/ \E k \in 1..MaxBody : ReaderDecode(c, k)
    \/ ReaderDecodeError(c)
    \/ ReaderSend(c)
    \/ ReaderDelete(c)

WriterStep(c, n) ==
    \/ WriterRecv(c, n)
    \/ WriterMarshalError(c, n)
    \/ WriterInsert(c, n)
    \/ \E ok \in BOOLEAN : WriterWrite(c, n, ok)
    \/ WriterWriteFinished(c, n)
    \/ WriterUnmap(c, n)
    \/ WriterRetry(c, n)
    \/ WriterSendFailed(c, n)

\* The caller of every request but the first drains its sink; the caller of
\* the first may be slow, or never read at all.
PromptCallers == Reqs \ {1}

Fairness ==
    /\ \A c \in Conns : WF_vars(HandlerStep(c))
    /\ \A c \in Conns, n \in Nodes : WF_vars(WriterStep(c, n))
    /\ \A r \in PromptCallers : WF_vars(Consume(r))

\* One connection over a transport that fails no write, the companion
\* sending one object more than in Init; or the transport that is down.
InitFair ==
    \/ InitWith("flaky", Budget(1, 0, MaxChunks + 1, 0, 0, MaxCloses))
    \/ InitDown

SpecFair == InitFair /\ [][Next]_vars /\ Fairness

\* ------------------------------------------------ vocabulary of claims
Issued(r) == reqNode[r] # NoNode
InQueue(r) == \E n \in Nodes : \E i \in 1..Len(RequestCh[n]) : RequestCh[n][i] = r
HeldByWriter(r) == \E c \in Conns, n \in Nodes : wreq[c][n] = r
HeldByReader(r) == \E c \in Conns : response[c].req = r
InMap(r, c) == Issued(r) /\ requestMap[c][reqId[r]] = r
Mapped(r) == \E c \in Conns : InMap(r, c)
\* r has left RequestCh at least once.
Dequeued(r) == Issued(r) /\ (~InQueue(r) \/ reenq[r] > 0)

IsTerminal(ch) == ch.last
Terminals(r) == Len(SelectSeq(delivered[r], IsTerminal))
IsSendFailed(ch) == ch.kind = "sendfailed"
SendFailures(r) == Len(SelectSeq(delivered[r], IsSendFailed))
IsDisconnected(ch) == ch.kind = "disconnected"
Disconnects(r) == Len(SelectSeq(delivered[r], IsDisconnected))
IsOtherTerminal(ch) == ch.last /\ ch.kind # "disconnected"
OtherTerminals(r) == Len(SelectSeq(delivered[r], IsOtherTerminal))
IsError(ch) == ch.err
Errors(r) == Len(SelectSeq(delivered[r], IsError))
IsRouted(ch) == ch.kind = "response"
Routed(r) == SelectSeq(delivered[r], IsRouted)

\* Nothing refers to r any more: no queue, no goroutine, no requestMap.
Forgotten(r) ==
    Dequeued(r) /\ ~InQueue(r) /\ ~HeldByWriter(r) /\ ~HeldByReader(r)
    /\ ~Mapped(r)

\* The handshake of c went through and its node loop is over.
Serving(c) == hpc[c] \in {"decode", "send", "delete"}
\* The nodes c connected, each with a writer of c.
ConnectedBy(c) == {n \in Nodes : wpc[c][n] # "none"}
\* The handler of c and its writers have nothing to do but wait.
Quiet(c) ==
    /\ hpc[c] = "decode"
    /\ body[c] = <<>>
    /\ \A n \in ConnectedBy(c) : wpc[c][n] = "recv" /\ RequestCh[n] = <<>>

\* -------------------------------------------------------------- claims

\* C1 (correlator balance): every request a writer has dequeued gets exactly
\* one terminal event in its sink: never two, and a request that has none
\* yet is still held somewhere (queue, writer, reader or requestMap), so that
\* one can still reach it.
C1_CorrelatorBalance ==
    \A r \in Reqs :
        Dequeued(r) =>
            /\ Terminals(r) <= 1
            /\ Forgotten(r) => Terminals(r) = 1

\* C2 (disconnect drain): once the companion of connection c is gone and the
\* handler has seen the end of the body and has nothing left to do, every
\* request that was in requestMap has got a synthetic "disconnected"
\* terminal chunk and requestMap is empty.
C2_DisconnectDrain ==
    \A c \in Conns :
        (eof[c] /\ Quiet(c)) =>
            /\ \A i \in Ids : requestMap[c][i] = NoReq
            /\ \A r \in Reqs :
                  (writeConn[r] = c /\ OtherTerminals(r) = 0)
                      => Disconnects(r) = 1

\* C3 (teardown): once the reader loop has met the end of the request body,
\* the handler has returned and every node it connected is disconnected.
C3_Teardown ==
    \A c \in Conns :
        eof[c] =>
            /\ hpc[c] = "returned"
            /\ \A n \in ConnectedBy(c) : ~Connected[n]

\* C4 (handshake supersession): no request is written on a connection c for
\* a node that a later connection, whose handshake is complete, has taken
\* over.
C4_Supersession ==
    [][\A r \in Reqs :
          writes'[r] > writes[r] =>
              LET n == reqNode[r]
                  c == writeConn'[r]
              IN  ~(owner[n] # c /\ Serving(owner[n]))]_vars

\* C5 (cross-request independence): while a request B that nobody cancelled
\* is in flight on connection c, the cancellation of another request does
\* not stop the reader loop that routes B's chunks.
C5_Independence ==
    \A c \in Conns, b \in Reqs :
        (InMap(b, c) /\ ~closed[b] /\ Terminals(b) = 0
         /\ \E a \in Reqs : a # b /\ closed[a])
            => hpc[c] # "panicked"

\* C6 (ordering preservation): the chunks routed to a sink are the chunks
\* the companion emitted for the request's id, in the order of emission,
\* none missing: the i-th routed chunk is the i-th emitted, and once no
\* emitted chunk is on the wire or in the reader's hands, a request without
\* a terminal chunk has them all.
C6_Ordering ==
    \A r \in Reqs :
        writes[r] > 0 =>
            LET c == writeConn[r]
                d == Routed(r)
                onWire == \E i \in 1..Len(body[c]) : body[c][i].id = reqId[r]
            IN  /\ \A i \in 1..Len(d) : d[i].seq = i
                /\ (Terminals(r) = 0 /\ ~onWire /\ response[c].id # reqId[r])
                      => Len(d) = sent[c][reqId[r]]

\* C7 (retry bound): a request is put back on the queue at most 14 times and
\* written at most 15 times, and after the failure of its 15th write it is
\* not queued again: the writer is at, or past, the send of the send-failed
\* chunk.
C7_RetryBound ==
    \A r \in Reqs :
        /\ reenq[r] <= RetryLimit - 1
        /\ writes[r] + failed[r] <= RetryLimit
        /\ failed[r] = RetryLimit =>
              /\ ~InQueue(r)
              /\ \/ \E c \in Conns, n \in Nodes :
                       wreq[c][n] = r /\ wpc[c][n] \in {"unmap", "retry", "errsend"}
                 \/ SendFailures(r) = 1

C7_Witness ==
    \E r \in Reqs :
        failed[r] = RetryLimit /\ reenq[r] = RetryLimit - 1
        /\ SendFailures(r) = 1 /\ ~HeldByWriter(r)

\* C8 (write exhaustion): over a transport that fails every write, a request
\* that a writer dequeued and that is no longer queued or held has been
\* failed: 15 attempts, one send-failed chunk, no entry in requestMap.
C8_WriteExhaustion ==
    transport = "down" =>
        \A r \in Reqs :
            (Dequeued(r) /\ ~reqBad[r] /\ ~InQueue(r) /\ ~HeldByWriter(r)) =>
                /\ failed[r] = RetryLimit
                /\ SendFailures(r) = 1
                /\ ~Mapped(r)

\* C9 (write retry): a request whose first k < 15 writes failed is on its
\* way to the next attempt (queued or with a writer) until it is written;
\* when it has been written, and before the companion answers, its retry
\* counter is k, it is in requestMap and no error chunk is in its sink.
C9_WriteRetry ==
    \A r \in Reqs :
        (Issued(r) /\ ~reqBad[r] /\ failed[r] < RetryLimit) =>
            /\ writes[r] = 0 => (InQueue(r) \/ HeldByWriter(r))
            /\ (writes[r] = 1 /\ sent[writeConn[r]][reqId[r]] = 0) =>
                  /\ Retries[r] = failed[r]
                  /\ InMap(r, writeConn[r])
                  /\ Errors(r) = 0

\* C10 (at-most-once delivery): a request is written successfully at most
\* once; once written it is neither queued nor with a writer again; and it
\* is put back on the queue only after a write of it failed.
C10_AtMostOnce ==
    \A r \in Reqs :
        /\ writes[r] <= 1
        /\ writes[r] = 1 => (~InQueue(r) /\ ~HeldByWriter(r))
        /\ reenq[r] <= failed[r]

C10_Witness ==
    \E r \in Reqs :
        /\ writes[r] = 1 /\ reenq[r] = 1 /\ failed[r] = 1
        /\ \E c \in Conns : c # writeConn[r] /\ Serving(c)

\* The handshake object of c has been decoded: the handler is in, or past,
\* its node loop (a return out of the node loop leaves the failing node at
\* the head of hsLeft; a return on a handshake error leaves hsLeft empty).
HandshakeDone(c) ==
    \/ hpc[c] \in {"nodes", "decode", "send", "delete", "panicked"}
    \/ hpc[c] = "returned" /\ hsLeft[c] # <<>>

\* C11 (handshake precedes forward writes): on a connection whose handshake
\* has not been decoded no writer exists, no request has been written, the
\* companion has received nothing and no node is connected by it.
C11_HandshakeFirst ==
    \A c \in Conns :
        ~HandshakeDone(c) =>
            /\ \A n \in Nodes : wpc[c][n] = "none" /\ owner[n] # c
            /\ \A r \in Reqs : writeConn[r] # c
            /\ received[c] = {}
            /\ \A i \in Ids : requestMap[c][i] = NoReq

C11_Witness ==
    \E c \in Conns, r \in Reqs :
        /\ HandshakeDone(c) /\ writeConn[r] = c /\ Connected[reqNode[r]]
        /\ \E d \in Conns : hpc[d] = "handshake"

\* The handler of c returned on a handshake that could not be decoded.
HandshakeFailed(c) == hpc[c] = "returned" /\ hsLeft[c] = <<>>

\* C12 (handshake errors close with HTTP 400): when the first object on the
\* request body is no handshake, the handler returns and the status the
\* companion got for the connection is 400.
C12_HandshakeError400 ==
    \A c \in Conns : HandshakeFailed(c) => status[c] = 400


\* The reader loop of c takes objects off the request body in this step.
DecodeStep(c) == hpc[c] = "decode" /\ Len(body'[c]) < Len(body[c])

\* C13 (malformed objects are skipped): the decode of a malformed object
\* changes neither requestMap nor any sink, disconnects no node, leaves the
\* handler in its reader loop, and leaves every object that follows it on
\* the stream to be decoded and routed.
C13_MalformedSkipped ==
    [][\A c \in Conns :
          (DecodeStep(c) /\ Head(body[c]) = Malformed) =>
              /\ requestMap' = requestMap
              /\ delivered' = delivered /\ Responses' = Responses
              /\ Connected' = Connected
              /\ hpc'[c] = "decode"
              /\ body'[c] = Tail(body[c])]_vars


\* The reader loop looks up an id that is no key of requestMap.
UnknownId(c) ==
    LET obj == Head(body[c])
    IN  obj # Malformed /\ (obj.id \in Ids => requestMap[c][obj.id] = NoReq)

\* No chunk entered the sink of r after a terminal one.
TerminalIsFinal(r) ==
    \A i \in 1..Len(delivered[r]) :
        delivered[r][i].last => i = Len(delivered[r])

\* C14 (unknown ids are discarded): the lookup of an id that is not in
\* requestMap changes no sink and not requestMap; and no chunk reaches the
\* sink of a request after its terminal chunk.
C14_UnknownDiscarded ==
    /\ [][\A c \in Conns :
             (DecodeStep(c) /\ UnknownId(c)) =>
                 /\ requestMap' = requestMap
                 /\ delivered' = delivered /\ Responses' = Responses
                 /\ hpc'[c] = "decode"]_vars
    /\ [](\A r \in Reqs : TerminalIsFinal(r))


\* C15 (cancellation): a request whose sink the operator closed has no
\* entry in requestMap, the reader loop holds no chunk to send into the
\* closed sink, and no handler has panicked on such a send.
C15_Cancellation ==
    /\ \A r \in Reqs : closed[r] => (~Mapped(r) /\ ~HeldByReader(r))
    /\ \A c \in Conns : hpc[c] # "panicked"


\* A chunk for request b waits on the request body of c, b being in requestMap.
PendingFor(b, c) ==
    /\ InMap(b, c)
    /\ \E i \in 1..Len(body[c]) : body[c][i].id = reqId[b]

\* The reader loop of c is blocked on the full sink of request a.
BlockedOn(a, c) ==
    /\ hpc[c] = "send" /\ response[c].req = a
    /\ ~closed[a] /\ Responses[a] = SinkCap

\* C16 (a slow reader back-pressures only its own request): when the reader
\* loop waits on the full sink of request 1, whose caller does not drain it,
\* a chunk that has arrived for another request in flight is still taken up
\* by the reader loop (unless request 1 is cancelled or the process ends).
C16_SlowReader ==
    \A c \in Conns, b \in PromptCallers :
        (BlockedOn(1, c) /\ PendingFor(b, c))
            ~> (~PendingFor(b, c) \/ closed[1] \/ crashed)


\* C17 (context cancellation ends every derived task): once the handler of
\* c has returned, which cancels the connection context (defer cancel()),
\* no writer spawned by it calls w.Write on the response body.
C17_ContextCancel ==
    [][\A c \in Conns, n \in Nodes : ~WriterWriteFinished(c, n)]_vars


\* C18 (every inserted request is eventually removed): an entry of
\* requestMap whose companion has gone away does not stay for ever.
C18_EventuallyRemoved ==
    \A c \in Conns, r \in Reqs :
        (InMap(r, c) /\ peerClosed[c]) ~> (~InMap(r, c) \/ crashed)


\* The in-flight RPCs of c: written successfully on c, no terminal event in
\* the sink yet, not cancelled.
Outstanding(c) ==
    {r \in Reqs : writes[r] > 0 /\ writeConn[r] = c /\ Terminals(r) = 0
                  /\ ~closed[r]}

\* C19 (requestMap holds exactly the in-flight RPCs): on every connection
\* the ids in requestMap are the ids of its outstanding requests, each
\* mapped to its request.
C19_MapIsInFlight ==
    \A c \in Conns :
        /\ \A i \in Ids :
              requestMap[c][i] # NoReq => requestMap[c][i] \in Outstanding(c)
        /\ \A r \in Outstanding(c) : InMap(r, c)


\* C20 (deliver-response promotes errors and removes on terminal): a routed
\* chunk that carries an error enters the sink with last = TRUE, whatever
\* the companion sent; after the delivery of a chunk with last = TRUE the
\* reader loop deletes its id from requestMap before it does anything else;
\* the delivery of a chunk with last = FALSE leaves requestMap as it is.
C20_DeliverResponse ==
    /\ [](\A r \in Reqs : \A i \in 1..Len(delivered[r]) :
             (delivered[r][i].kind = "response" /\ delivered[r][i].err)
                 => delivered[r][i].last)
    /\ [][\A c \in Conns :
             /\ (DecodeStep(c) /\ hpc'[c] = "send") =>
                   (response'[c].last
                       <=> (Head(body[c]).last \/ Head(body[c]).err))
             /\ (hpc[c] = "send" /\ hpc'[c] \notin {"send", "panicked"}) =>
                   /\ requestMap' = requestMap
                   /\ hpc'[c] = IF response[c].last THEN "delete" ELSE "decode"
             /\ (hpc[c] = "delete" /\ hpc'[c] # "delete") =>
                   /\ requestMap'[c][response[c].id] = NoReq
                   /\ hpc'[c] = "decode"]_vars

C20_Witness ==
    \E c \in Conns, r \in Reqs :
        /\ hpc[c] = "decode" /\ writeConn[r] = c /\ ~Mapped(r)
        /\ \E i \in 1..Len(delivered[r]) :
              /\ delivered[r][i].kind = "response"
              /\ delivered[r][i].err /\ delivered[r][i].last
        /\ \E q \in Reqs : q # r /\ InMap(q, c) /\ Len(Routed(q)) > 0


\* The writers of c that are at w.Write: past the insert of line 97, the
\* call of line 100 (and the Flush of line 122) not yet over.
Writing(c) == {n \in Nodes : wpc[c][n] = "write"}

\* C21 (shared-resource policy): at no time are two per-node writers of one
\* connection inside a write or flush of the shared response body.
C21_OneWriterAtATime ==
    \A c \in Conns : Cardinality(Writing(c)) <= 1

\* Bytes of r may have reached the companion of c: a writer of c is at the
\* write of r, or r has been written on c.
MayHaveReached(r, c) ==
    \/ \E n \in Nodes : wreq[c][n] = r /\ wpc[c][n] = "write"
    \/ writes[r] > 0 /\ writeConn[r] = c

\* C22 (insert before write): while bytes of a request may have reached the
\* companion and no terminal event has been routed for it, its id is a key
\* of requestMap.
C22_InsertBeforeWrite ==
    \A c \in Conns, r \in Reqs :
        (MayHaveReached(r, c) /\ Terminals(r) = 0) =>
            requestMap[c][reqId[r]] # NoReq

\* C23 (several nodes on one connection): a chunk is routed only to a
\* request the companion has been sent, and a request that is in flight
\* keeps its own entry in requestMap until its terminal chunk.
C23_OwnEntry ==
    \A r \in Reqs :
        /\ Routed(r) # <<>> => writes[r] > 0
        /\ \A c \in Conns :
              (writes[r] > 0 /\ writeConn[r] = c /\ Terminals(r) = 0) =>
                  InMap(r, c)

\* The handler of c returned out of its node loop: CreateNodeSession failed.
NodeLoopFailed(c) == hpc[c] = "returned" /\ hsLeft[c] # <<>>

\* C24 (a failing node session): when the handler returns because a node
\* session could not be created, none of the nodes it connected before is
\* still marked connected by it and none of its writers is running.
C24_FailedNodeSession ==
    \A c \in Conns :
        NodeLoopFailed(c) =>
            \A n \in Nodes :
                /\ wpc[c][n] = "none"
                /\ owner[n] = c => ~Connected[n]

====
